---- MODULE Spec2Model ----
(***************************************************************************)
(* Model of scripts/process_pdf.py (TOM CITY EDITION - PDF PROCESSOR v2.0) *)
(*                                                                         *)
(* The filesystem the script works on is the state: the uploads folder,    *)
(* the papers/<date> edition folders, assets/latest-cover.jpg, index.html  *)
(* and app.js.  One run of main() is one step.  Text files are sequences   *)
(* of tokens; every token stands for a fixed piece of text, so that the    *)
(* substring tests, the regular expression and str.replace of the script   *)
(* are computed over the content rather than assumed.                      *)
(***************************************************************************)
EXTENDS Integers, Sequences, FiniteSets, TLC

VARIABLES uploads, papers, cover, html, appjs, js_report, js_hist, lastRun

vars == <<uploads, papers, cover, html, appjs, js_report, js_hist, lastRun>>

(***************************************************************************)
(* Bounds of the model                                                     *)
(***************************************************************************)
\* largest number of pages the rasterizer yields for one PDF
MaxPages == 2
\* number of runs of main() followed in one behaviour
MaxRuns == 2
\* deepest indentation (in units of two spaces) of a record of the data file
MaxIndent == 3

(***************************************************************************)
(* Text tokens.  t names the piece of text, k is the date key of a quoted  *)
(* key, d is a decimal digit or the identity of a piece of free text.      *)
(*   sp2    two spaces                                                     *)
(*   nl     "\n"                                                           *)
(*   marker // ROBOT_ENTRY_POINT                                           *)
(*   key    "<date-key>"   (with its quotes)                               *)
(*   pre    : { pages:<space>                                              *)
(*   dig    one decimal digit                                              *)
(*   post   , pdf: "full.pdf" }                                            *)
(*   comma  ,                                                              *)
(*   txt    any other text without quotes, marker or newline               *)
(***************************************************************************)
Tok(t) == [t |-> t, k |-> <<>>, d |-> 0]
SP2 == Tok("sp2")
NL == Tok("nl")
MARKER == Tok("marker")
PRE == Tok("pre")
POST == Tok("post")
COMMA == Tok("comma")
KeyTok(key) == [t |-> "key", k |-> key, d |-> 0]
Dig(n) == [t |-> "dig", k |-> <<>>, d |-> n]
Txt(i) == [t |-> "txt", k |-> <<>>, d |-> i]

\* str(int): the decimal digits of a non-negative integer
RECURSIVE Digits(_)
Digits(n) == IF n < 10 THEN <<n>> ELSE Digits(n \div 10) \o <<n % 10>>

DigitToks(n) == [i \in 1..Len(Digits(n)) |-> Dig(Digits(n)[i])]

\* new_entry = f'    "{date_key}": {{ pages: {pages}, pdf: "full.pdf" }},'
NewEntry(key, pages) ==
    <<SP2, SP2, KeyTok(key), PRE>> \o DigitToks(pages) \o <<POST, COMMA>>

\* marker in content
HasMarker(content) == \E i \in 1..Len(content) : content[i] = MARKER

\* f'"{date_key}"' in content
EntryExists(content, key) == \E i \in 1..Len(content) : content[i] = KeyTok(key)

At(content, i) == IF i >= 1 /\ i <= Len(content) THEN content[i] ELSE Tok("eof")

\* \d+ : index of the first token at or after i that is not a digit
RECURSIVE DigitsEnd(_, _)
DigitsEnd(content, i) ==
    IF At(content, i).t = "dig" THEN DigitsEnd(content, i + 1) ELSE i

\* The regular expression
\*   '    "<key>": \{ pages: \d+, pdf: "full\.pdf" \},?\n?'
\* tried at position i: the index just after the match, or 0 without a match.
MatchEnd(content, i, key) ==
    LET j == DigitsEnd(content, i + 4)
        c == IF At(content, j + 1) = COMMA THEN j + 2 ELSE j + 1
        e == IF At(content, c) = NL THEN c + 1 ELSE c
    IN  IF /\ At(content, i) = SP2
           /\ At(content, i + 1) = SP2
           /\ At(content, i + 2) = KeyTok(key)
           /\ At(content, i + 3) = PRE
           /\ j > i + 4
           /\ At(content, j) = POST
        THEN e
        ELSE 0

\* re.sub(pattern, '', content): leftmost non-overlapping matches are dropped
RECURSIVE ReSub(_, _, _)
ReSub(content, i, key) ==
    IF i > Len(content) THEN <<>>
    ELSE LET e == MatchEnd(content, i, key)
         IN  IF e > 0 THEN ReSub(content, e, key)
             ELSE <<content[i]>> \o ReSub(content, i + 1, key)

\* content.replace(marker, marker + "\n" + new_entry): every occurrence
RECURSIVE ReplaceMarker(_, _, _)
ReplaceMarker(content, i, entry) ==
    IF i > Len(content) THEN <<>>
    ELSE (IF content[i] = MARKER THEN <<MARKER, NL>> \o entry ELSE <<content[i]>>)
         \o ReplaceMarker(content, i + 1, entry)

\* a faulty update_app_js: the marker check is left out
UpdateAppJsNoMarkerCheck(content, key, pages) ==
    LET exists == EntryExists(content, key)
        c1 == IF exists THEN ReSub(content, 1, key) ELSE content
    IN  [content |-> ReplaceMarker(c1, 1, NewEntry(key, pages)),
         report |-> IF exists THEN "updated" ELSE "added"]

\* update_app_js(date_key, pages): the new content of app.js and what is printed
UpdateAppJs(content, key, pages) ==
    IF ~HasMarker(content)
    THEN [content |-> content, report |-> "marker_missing"]
    ELSE LET exists == EntryExists(content, key)
             c1 == IF exists THEN ReSub(content, 1, key) ELSE content
         IN  [content |-> ReplaceMarker(c1, 1, NewEntry(key, pages)),
              report |-> IF exists THEN "updated" ELSE "added"]


(***************************************************************************)
(* File names and date keys.  A name is its stem (a sequence of            *)
(* characters), its extension and whether it is a regular file.            *)
(***************************************************************************)
K1 == <<"0", "5", "-", "0", "3", "-", "2", "0", "2", "6">>
K2 == <<"0", "6", "-", "0", "3", "-", "2", "0", "2", "6">>
BadStem == <<"5", "-", "3", "-", "2", "0", "2", "6">>
Keys == {K1, K2}
NoKey == <<>>

PdfFile(stem) == [stem |-> stem, ext |-> "pdf", isfile |-> TRUE]
NOTES == [stem |-> <<"n", "o", "t", "e", "s">>, ext |-> "txt", isfile |-> TRUE]
GITKEEP == [stem |-> <<>>, ext |-> "gitkeep", isfile |-> TRUE]
DRAFTS == [stem |-> <<"d", "r", "a", "f", "t", "s">>, ext |-> "", isfile |-> FALSE]

\* what an operator may put into uploads/
UploadUniverse == {PdfFile(K1), PdfFile(K2), PdfFile(BadStem)}

\* glob.glob(os.path.join(UPLOADS_DIR, "*.pdf"))
Pdfs(u) == {f \in u : f.ext = "pdf"}

IsDigit(c) == c \in {"0", "1", "2", "3", "4", "5", "6", "7", "8", "9"}

\* validate_date_format: ^\d{2}-\d{2}-\d{4}$
ValidateDateFormat(s) ==
    /\ Len(s) = 10
    /\ \A i \in {1, 2, 4, 5, 7, 8, 9, 10} : IsDigit(s[i])
    /\ s[3] = "-"
    /\ s[6] = "-"

(***************************************************************************)
(* Edition folders papers/<date>: the .png files in it and full.pdf        *)
(***************************************************************************)
NoDir == [exists |-> FALSE, pngs |-> {}, pdf |-> FALSE]
\* the folder of an edition of n pages: 1.png .. n.png and full.pdf
Published(n) == [exists |-> TRUE, pngs |-> {[pre |-> "", n |-> i] : i \in 1..n},
                 pdf |-> TRUE]

\* pdftoppm -png ... <output_dir>/page : page-1.png .. page-n.png
RasterOutput(n) == {[pre |-> "page-", n |-> i] : i \in 1..n}

\* the pages pdftoppm may have written before it fails
PartialOutputs == {0, 1}

\* sorted(glob("*.png")): pdftoppm pads the page numbers to one width, so the
\* order of the names is the order of the page numbers
RECURSIVE SortedPngs(_)
SortedPngs(S) ==
    IF S = {} THEN <<>>
    ELSE LET m == CHOOSE x \in S : \A y \in S : x.n <= y.n
         IN  <<m>> \o SortedPngs(S \ {m})

\* rename_images: the i-th file of the sorted listing becomes <i+1>.png
\* (enumerate counts from 0); the list of the new paths is returned
RenameImages(pngs) ==
    LET generated_images == SortedPngs(pngs)
    IN  [i \in 1..Len(generated_images) |-> [pre |-> "", n |-> (i - 1) + 1]]

SeqRange(s) == {s[i] : i \in 1..Len(s)}

(***************************************************************************)
(* index.html: og:image meta tags (k is the ?v= token of the content URL,  *)
(* NoKey for a content that is some other URL) and other text              *)
(***************************************************************************)
OgTag(key) == [t |-> "og", k |-> key]
HtmlTxt == [t |-> "txt", k |-> NoKey]

\* update_social_tags: re.search, then re.sub of every og:image content
UpdateSocialTags(h, key) ==
    IF \E i \in 1..Len(h) : h[i].t = "og"
    THEN [i \in 1..Len(h) |-> IF h[i].t = "og" THEN OgTag(key) ELSE h[i]]
    ELSE h

\* cropped_img.save(target_cover, "JPEG", optimize=True, quality=70)
PreviewQuality == 70
\* the byte sizes (KB) the JPEG encoder may produce for a cropped first page
PreviewSizes == {200, 260}

\* what Pillow does with the first page: it raises (ok is FALSE), or it
\* writes a JPEG of some size
PreviewOutcomes ==
    {[ok |-> FALSE, size |-> 0]} \cup {[ok |-> TRUE, size |-> s] : s \in PreviewSizes}

\* create_smart_preview: the except branch returns before update_social_tags
CreateSmartPreview(cov, h, key, enc) ==
    IF enc.ok
    THEN [cover |-> [from |-> key, quality |-> PreviewQuality, size |-> enc.size],
          html |-> UpdateSocialTags(h, key)]
    ELSE [cover |-> cov, html |-> h]

\* a faulty cleanup_uploads_folder: .gitkeep is not spared
CleanupRemovesGitkeep(u) == {f \in u : ~f.isfile}

\* cleanup_uploads_folder: os.remove of every regular file but .gitkeep
CleanupUploadsFolder(u) == {f \in u : f = GITKEEP \/ ~f.isfile}

(***************************************************************************)
(* A call of update_app_js: app.js is rewritten and the message is kept.   *)
(***************************************************************************)
NoOp == [k |-> NoKey, n |-> 0]

CallUpdateAppJs(key, pages) ==
    LET r == UpdateAppJs(appjs, key, pages)
    IN  /\ appjs' = r.content
        /\ js_report' = r.report

\* What a run did: how it ended, the date key and page count it worked on,
\* and whether shutil.rmtree removed an edition folder
Ran(outcome, key, pages, rmtree) ==
    [n |-> lastRun.n + 1, outcome |-> outcome, key |-> key, pages |-> pages,
     rmtree |-> rmtree]

(***************************************************************************)
(* main()                                                                  *)
(***************************************************************************)
\* an operator drops a file into uploads/
Upload(f) ==
    /\ f \notin uploads
    /\ uploads' = uploads \cup {f}
    /\ UNCHANGED <<papers, cover, html, appjs, js_report, js_hist, lastRun>>

\* 1. no PDF in uploads/: return
MainNoPdf ==
    /\ lastRun.n < MaxRuns
    /\ Pdfs(uploads) = {}
    /\ lastRun' = Ran("no_pdf", NoKey, 0, FALSE)
    /\ UNCHANGED <<uploads, papers, cover, html, appjs, js_report, js_hist>>

\* 2. pdfs[0] (any of the PDFs: glob's order is the directory's) has a name
\*    that is no date: return
MainInvalidName(f) ==
    /\ lastRun.n < MaxRuns
    /\ f \in Pdfs(uploads)
    /\ ~ValidateDateFormat(f.stem)
    /\ lastRun' = Ran("bad_name", f.stem, 0, FALSE)
    /\ UNCHANGED <<uploads, papers, cover, html, appjs, js_report, js_hist>>

\* a faulty main(): the except branch of the conversion does not return
MainConvertFailGoesOn(f, j) ==
    /\ lastRun.n < MaxRuns
    /\ f \in Pdfs(uploads)
    /\ ValidateDateFormat(f.stem)
    /\ papers' = [papers EXCEPT ![f.stem] =
                     [exists |-> TRUE, pngs |-> RasterOutput(j), pdf |-> TRUE]]
    /\ uploads' = CleanupUploadsFolder(uploads \ {f})
    /\ CallUpdateAppJs(f.stem, j)
    /\ lastRun' = Ran("convert_failed", f.stem, 0, papers[f.stem].exists)
    /\ UNCHANGED <<cover, html, js_hist>>

\* 3.-4. the edition folder is removed and made anew, pdftoppm fails after
\*       writing j pages: return
MainConvertFail(f, j) ==
    /\ lastRun.n < MaxRuns
    /\ f \in Pdfs(uploads)
    /\ ValidateDateFormat(f.stem)
    /\ papers' = [papers EXCEPT ![f.stem] =
                     [exists |-> TRUE, pngs |-> RasterOutput(j), pdf |-> FALSE]]
    /\ lastRun' = Ran("convert_failed", f.stem, 0, papers[f.stem].exists)
    /\ UNCHANGED <<uploads, cover, html, appjs, js_report, js_hist>>

\* 3.-9. the whole run: pdftoppm yields n pages; enc is the outcome of the
\*       preview's encoding
MainComplete(f, n, enc) ==
    /\ lastRun.n < MaxRuns
    /\ f \in Pdfs(uploads)
    /\ ValidateDateFormat(f.stem)
    /\ LET date_str == f.stem
           generated_images == RenameImages(RasterOutput(n))
           page_count == Len(generated_images)
           pv == IF page_count > 0
                 THEN CreateSmartPreview(cover, html, date_str, enc)
                 ELSE [cover |-> cover, html |-> html]
       IN  /\ papers' = [papers EXCEPT ![date_str] =
                            [exists |-> TRUE, pngs |-> SeqRange(generated_images),
                             pdf |-> TRUE]]
           /\ cover' = pv.cover
           /\ html' = pv.html
           /\ CallUpdateAppJs(date_str, page_count)
           /\ uploads' = CleanupUploadsFolder(uploads \ {f})
           /\ lastRun' = Ran("complete", date_str, page_count, papers[date_str].exists)
           /\ UNCHANGED js_hist

(***************************************************************************)
(* The states the files can be in before the first run                     *)
(***************************************************************************)
Header == <<Txt(1), NL>>
Footer == <<Txt(2), NL>>

Spaces(indent) == [i \in 1..indent |-> SP2]

\* a record line: 2*indent spaces, then "<key>": { pages: <n>, pdf: "full.pdf" }
RecLine(key, pages, indent, comma) ==
    Spaces(indent) \o <<KeyTok(key), PRE>> \o DigitToks(pages) \o <<POST>>
    \o (IF comma THEN <<COMMA>> ELSE <<>>) \o <<NL>>

MarkerLines == {<<>>, <<SP2, SP2, MARKER, NL>>, <<SP2, SP2, MARKER, Txt(3), NL>>}

\* at most one record of each key; the marker at most once
UpsertContents ==
    LET R1 == {<<>>} \cup {RecLine(K1, 4, ind, c) : ind \in 1..MaxIndent, c \in BOOLEAN}
        R2 == {<<>>, RecLine(K2, 4, 2, TRUE)}
    IN  {Header \o m \o r1 \o r2 \o Footer : m \in MarkerLines, r1 \in R1, r2 \in R2}
        \cup {Header \o r1 \o <<SP2, SP2, MARKER>> : r1 \in R1}

\* the data file before the first run: the record of the published edition
\* K1 in the form the script writes, the same indented by two spaces only,
\* and a file that has lost its marker
PipelineContents ==
    {Header \o <<SP2, SP2, MARKER, NL>> \o RecLine(K1, 1, 2, TRUE) \o Footer,
     Header \o <<SP2, SP2, MARKER, NL>> \o RecLine(K1, 1, 1, TRUE) \o Footer,
     Header \o RecLine(K1, 1, 2, TRUE) \o Footer}

HtmlContents == {<<HtmlTxt, OgTag(NoKey), HtmlTxt>>, <<HtmlTxt>>}

OldCover == [from |-> NoKey, quality |-> PreviewQuality, size |-> 120]

TypeStart ==
    /\ uploads = {GITKEEP, DRAFTS, NOTES}
    /\ papers = [k \in Keys |-> IF k = K1 THEN Published(1) ELSE NoDir]
    /\ cover = OldCover
    /\ js_report = "none"
    /\ lastRun = [n |-> 0, outcome |-> "none", key |-> NoKey, pages |-> 0,
                  rmtree |-> FALSE]

Init ==
    /\ TypeStart
    /\ html \in HtmlContents
    /\ appjs \in PipelineContents
    /\ js_hist = [prev |-> appjs, op |-> NoOp, op_prev |-> NoOp]

Next ==
    \/ \E f \in UploadUniverse : Upload(f)
    \/ MainNoPdf
    \/ \E f \in UploadUniverse : MainInvalidName(f)
    \/ \E f \in UploadUniverse, j \in PartialOutputs : MainConvertFail(f, j)
    \/ \E f \in UploadUniverse, n \in 0..MaxPages, enc \in PreviewOutcomes :
          MainComplete(f, n, enc)

Spec == Init /\ [][Next]_vars

(***************************************************************************)
(* update_app_js alone, applied again and again to a data file             *)
(***************************************************************************)
PageInputs == {4, 9, 12}

\* the content before the call and the arguments of the last two calls are
\* remembered in js_hist
Upsert(key, pages) ==
    /\ CallUpdateAppJs(key, pages)
    /\ js_hist' = [prev |-> appjs, op |-> [k |-> key, n |-> pages],
                   op_prev |-> js_hist.op]
    /\ UNCHANGED <<uploads, papers, cover, html, lastRun>>

UpsertInit ==
    /\ TypeStart
    /\ html = <<HtmlTxt>>
    /\ appjs \in UpsertContents
    /\ js_hist = [prev |-> appjs, op |-> NoOp, op_prev |-> NoOp]

UpsertNext == \E key \in Keys, pages \in PageInputs : Upsert(key, pages)

UpsertSpec == UpsertInit /\ [][UpsertNext]_vars

(***************************************************************************)
(* What the claims speak of                                                *)
(***************************************************************************)
MarkerCount(content) == Cardinality({i \in 1..Len(content) : content[i] = MARKER})

\* the records of a key: the places where "<key>" stands in the data file
RecordCount(content, key) ==
    Cardinality({i \in 1..Len(content) : content[i] = KeyTok(key)})

\* "<key>": { pages: <m>, pdf: "full.pdf" } stands at position i
RecordAt(content, i, key, m) ==
    /\ i + 2 + Len(Digits(m)) <= Len(content)
    /\ SubSeq(content, i, i + 2 + Len(Digits(m)))
         = <<KeyTok(key), PRE>> \o DigitToks(m) \o <<POST>>

HasRecord(content, key, m) == \E i \in 1..Len(content) : RecordAt(content, i, key, m)

\* the fresh record of the key stands on the line after the marker's
FreshAfterMarker(content, key, n) ==
    \E i \in 1..Len(content) :
        /\ content[i] = MARKER
        /\ i + 1 + Len(NewEntry(key, n)) <= Len(content)
        /\ SubSeq(content, i + 1, i + 1 + Len(NewEntry(key, n)))
             = <<NL>> \o NewEntry(key, n)

RECURSIVE SplitLines(_, _, _)
SplitLines(content, i, cur) ==
    IF i > Len(content) THEN <<cur>>
    ELSE IF content[i] = NL THEN <<cur>> \o SplitLines(content, i + 1, <<>>)
    ELSE SplitLines(content, i + 1, Append(cur, content[i]))

IsOtherLine(line, key) == line # <<>> /\ ~EntryExists(line, key)

\* the non-empty lines that hold no record of the key, in their order
RECURSIVE OtherLinesOf(_, _)
OtherLinesOf(lines, key) ==
    IF lines = <<>> THEN <<>>
    ELSE (IF IsOtherLine(Head(lines), key) THEN <<Head(lines)>> ELSE <<>>)
         \o OtherLinesOf(Tail(lines), key)

OtherLines(content, key) == OtherLinesOf(SplitLines(content, 1, <<>>), key)

Upserted == js_hist.op # NoOp

\* the step is a run of main()
IsRun == lastRun'.n = lastRun.n + 1

\* C1: after any runs on a data file with the marker exactly once and at most
\* one record per date key, the data file holds at most one record per key.
C1_AtMostOneRecordPerKey ==
    MarkerCount(appjs) = 1 => \A key \in Keys : RecordCount(appjs, key) <= 1

\* C2: when the marker is absent, update_app_js leaves the content of the
\* data file as it was and reports the error, whether or not the key has a
\* record in the file.
C2_MarkerAbsentLeavesFile ==
    (Upserted /\ ~HasMarker(js_hist.prev))
        => (appjs = js_hist.prev /\ js_report = "marker_missing")

\* update_app_js has been called on a file without the marker that holds a
\* record of the key which the regular expression matches
C2_Witness ==
    /\ Upserted
    /\ ~HasMarker(js_hist.prev)
    /\ EntryExists(js_hist.prev, js_hist.op.k)
    /\ \E i \in 1..Len(js_hist.prev) : MatchEnd(js_hist.prev, i, js_hist.op.k) > 0

\* C3: an upsert of key k into a data file with the marker exactly once keeps
\* every line other than k's record and the inserted line, unchanged and in
\* the original order.
C3_OtherLinesPreserved ==
    (Upserted /\ MarkerCount(js_hist.prev) = 1)
        => OtherLines(appjs, js_hist.op.k) = OtherLines(js_hist.prev, js_hist.op.k)

\* C4: on a data file with the marker exactly once, a second upsert with the
\* same key and page count leaves the content the first upsert produced.
C4_Idempotent ==
    (Upserted /\ js_hist.op_prev = js_hist.op /\ MarkerCount(js_hist.prev) = 1)
        => appjs = js_hist.prev

\* C5: when the data file holds the marker and a record of k with page count
\* m, an upsert of k with n # m leaves the record of k with n right after the
\* marker and no record of k with m anywhere.
C5_ReplacedNoStale ==
    \A m \in PageInputs :
        (/\ Upserted
         /\ HasMarker(js_hist.prev)
         /\ HasRecord(js_hist.prev, js_hist.op.k, m)
         /\ m # js_hist.op.n)
            => /\ FreshAfterMarker(appjs, js_hist.op.k, js_hist.op.n)
               /\ ~HasRecord(appjs, js_hist.op.k, m)

\* the ceiling of the preview's size in KB, and the quality floors the
\* specification names
CeilingKB == 200
QualityFloors == {10, 15}

\* C6: a preview the composer has written is no larger than the ceiling, or
\* was encoded at the quality floor.
C6_SizeOrFloor ==
    cover.from # NoKey => (cover.size <= CeilingKB \/ cover.quality \in QualityFloors)

\* C7: after every run that upserts an edition's record, the cache-bust token
\* of the HTML file is the date key of that edition.
C7_TokenIsLatestKey ==
    (lastRun.outcome = "complete" /\ js_report \in {"added", "updated"})
        => \A i \in 1..Len(html) : html[i].t = "og" => html[i].k = lastRun.key

\* C8: a run whose conversion fails patches neither the data file nor the
\* HTML file, does not overwrite the shared preview, and leaves the uploaded
\* PDF (and all of uploads/) where it is.
C8_ConvertFailureAborts ==
    [][(IsRun /\ lastRun'.outcome = "convert_failed")
          => UNCHANGED <<appjs, js_report, html, cover, uploads>>]_vars

\* a run has ended in the conversion error: the PDF is still in uploads/ and
\* the edition folder holds no full.pdf
C8_Witness ==
    /\ lastRun.outcome = "convert_failed"
    /\ PdfFile(lastRun.key) \in uploads
    /\ papers[lastRun.key].exists
    /\ ~papers[lastRun.key].pdf

\* C9 as stated: a run destroys nothing but the PDF it processed, and that
\* only when it completes; no edition folder and no other upload is deleted.
C9_OnlyProcessedPdfDestroyed ==
    [][IsRun =>
          /\ ~lastRun'.rmtree
          /\ (uploads \ uploads') \subseteq {PdfFile(lastRun'.key)}
          /\ (lastRun'.outcome # "complete" => uploads' = uploads)]_vars

\* C9 amended: a run that ends for want of a PDF or of a valid name deletes
\* nothing.  A run that gets past the name check removes the edition folder
\* of its own date key, if there is one, before converting (also when the
\* conversion then fails) and never touches the folder of another key.  Only
\* a run that completes takes files out of uploads/: the processed PDF is
\* moved to the edition folder as full.pdf and every other regular file but
\* .gitkeep is deleted, a second PDF included; .gitkeep and directories stay.
C9_WhatARunDestroys ==
    [][IsRun =>
          LET out == lastRun'.outcome
              key == lastRun'.key
          IN  /\ out \in {"no_pdf", "bad_name"}
                    => (uploads' = uploads /\ papers' = papers /\ ~lastRun'.rmtree)
              /\ out \in {"convert_failed", "complete"}
                    => /\ lastRun'.rmtree = papers[key].exists
                       /\ \A k \in Keys \ {key} : papers'[k] = papers[k]
              /\ out = "convert_failed" => uploads' = uploads
              /\ out = "complete"
                    => /\ papers'[key].pdf
                       /\ PdfFile(key) \in uploads
                       /\ \A f \in uploads :
                             f \in uploads' <=> (f = GITKEEP \/ ~f.isfile)
                       /\ uploads' \subseteq uploads]_vars

\* a completed run has replaced a published edition folder and has deleted
\* notes.txt from uploads/, while .gitkeep and the subdirectory are there
C9_Witness ==
    /\ lastRun.outcome = "complete"
    /\ lastRun.rmtree
    /\ NOTES \notin uploads
    /\ GITKEEP \in uploads
    /\ DRAFTS \in uploads

\* C10: the record a run writes carries a page count that is at least 1 and
\* is the number of the edition's page images 1.png .. n.png.
C10_PositivePageCount ==
    (lastRun.outcome = "complete" /\ js_report \in {"added", "updated"})
        => LET n == Cardinality(papers[lastRun.key].pngs)
           IN  /\ n >= 1
               /\ papers[lastRun.key].pngs = {[pre |-> "", n |-> i] : i \in 1..n}
               /\ HasRecord(appjs, lastRun.key, n)

====
